---- MODULE Spec2Model ----
(***************************************************************************)
(* whatgif: the colour table (classes.ColorTable), the LZW bit stream and  *)
(* code table (lzw.BitStream, lzw.CodeTable), lzw.compress, the extension  *)
(* blocks and packed fields of classes.py and the container core.GIF,      *)
(* modelled as state machines over the objects' fields.                    *)
(***************************************************************************)
EXTENDS Integers, Sequences, FiniteSets, TLC

VARIABLES
    \* classes.ColorTable.__slots__
    _ensure_transparent, _od, _li, _len,
    \* environment of the colour table: colours whose append returned normally,
    \* the last call and its outcome, number of calls made
    hist, last, ops,
    \* lzw.BitStream
    _buffer, _out,
    \* arguments of every BitStream.append call so far, in call order
    appended,
    \* lzw.CodeTable
    _d, min_code_size, _code_size, _cur_code, _codes_used,
    \* lzw.compress: its arguments, its locals and its position
    color_indices, idx_stream, idx_buffer, pc,
    \* classes.CommentExtension
    _data,
    \* a packed field: classes.TableColorField or classes.ImageColorField
    field,
    \* core.GIF (its global_color_table is the colour table above)
    images, logical_screen_descriptor, netscape_looping_extension,
    global_delay_time, global_color_table_size,
    \* core.Frame: the object of the last Frame(...) call as far as __init__
    \* got with it
    new_frame,
    \* the calls made on these objects, in order, and the outcome of the last
    called, returned

ctVars == <<_ensure_transparent, _od, _li, _len, hist, last, ops>>
bsVars == <<_buffer, _out, appended>>
tblVars == <<_d, min_code_size, _code_size, _cur_code, _codes_used>>
cmpVars == <<color_indices, idx_stream, idx_buffer, pc>>
extVars == <<_data, field>>
gifVars == <<images, logical_screen_descriptor, netscape_looping_extension,
             global_delay_time, global_color_table_size, new_frame>>
callVars == <<called, returned>>
objVars == <<extVars, gifVars, callVars>>
vars == <<ctVars, bsVars, tblVars, cmpVars, objVars>>

-----------------------------------------------------------------------------
(* Bounds of the model *)

\* ColorTable(iterable) is constructed from 0..MaxInitColors distinct colours
MaxInitColors == 256
\* calls made on a colour table after its construction
MaxOps == 3
\* BitStream.append calls made on a bit stream used on its own
MaxAppends == 3
\* compress: colours of the small colour tables, length of the inputs over them
MaxColors == 3
MaxInputLen == 5
\* compress: length of the longest input 0, 1, 2, ... over a 256-colour table
MaxRampLen == 18
\* compress: the long input is LongBlocks runs of 256 indices and LongTail more
LongBlocks == 15
LongTail == 2
\* CommentExtension: length of the longest comment text
MaxDataLen == 520
\* packed fields: the largest value given to a numeric sub-field
MaxFieldValue == 8
\* calls made on a container after its construction
MaxCalls == 4
\* compress on the long input is observed from LongLeft indices before the
\* end of its runs, and from ShortLeft indices before it
LongLeft == 110
ShortLeft == 3

-----------------------------------------------------------------------------
(* Python integer helpers *)

RECURSIVE bit_length(_)
bit_length(n) == IF n = 0 THEN 0 ELSE 1 + bit_length(n \div 2)

RECURSIVE BitAnd(_, _)
\* a & b for a >= 0 and b >= -1 (-1 is all ones in two's complement)
BitAnd(a, b) ==
    IF b = -1 THEN a
    ELSE IF a = 0 \/ b = 0 THEN 0
    ELSE (a % 2) * (b % 2) + 2 * BitAnd(a \div 2, b \div 2)

is_po2(n) == BitAnd(n, n - 1) = 0

next_po2(n) ==
    IF n = 0 THEN 1
    ELSE IF is_po2(n) THEN n
    ELSE 2 ^ bit_length(n - 1)

\* int(2 ** e): 2 ** e is a float below 1 for a negative e, and int() truncates
IntPow2(e) == IF e >= 0 THEN 2 ^ e ELSE 0

RECURSIVE join_bits(_)
\* reduce(lambda acc, bit: (acc << 1) | bit, byteseq), byteseq non-empty
join_bits(byteseq) ==
    IF Len(byteseq) = 1 THEN byteseq[1]
    ELSE 2 * join_bits(SubSeq(byteseq, 1, Len(byteseq) - 1)) + byteseq[Len(byteseq)]

Range(s) == {s[i] : i \in 1..Len(s)}

-----------------------------------------------------------------------------
(* Python values and call outcomes *)

\* None, and a value that may be None: <<>> or <<v>>
None == <<>>
Some(v) == <<v>>

\* the outcome of a call: it returned value, or it raised the exception named
Returns(value) == [raised |-> "", value |-> value]
Raises(exception) == [raised |-> exception, value |-> <<>>]

\* a call: the name of what was called and its arguments
Called(op, args) == [op |-> op, args |-> args]

\* the most recent call
LastCalled == called[Len(called)]

\* no extension, packed field or container has been created
ObjIdle ==
    /\ _data = <<>>
    /\ field = None
    /\ images = <<>>
    /\ logical_screen_descriptor = None
    /\ netscape_looping_extension = None
    /\ global_delay_time = 0
    /\ global_color_table_size = None
    /\ new_frame = None
    /\ called = <<>>
    /\ returned = Returns(<<>>)

-----------------------------------------------------------------------------
(* classes.ColorTable *)

BLACK == <<0, 0, 0>>

\* the i-th colour of the iterable a table is constructed from
InitColor(i) == <<(i - 1) % 256, (i - 1) \div 256, 7>>

\* colours passed to append after construction: black, a colour of the
\* constructor's iterable, a fresh colour, and two with components out of range
Palette == {BLACK, InitColor(1), <<9, 9, 9>>, <<256, 0, 0>>, <<256, 256, 256>>}

\* Python's tuple comparison a < b (lexicographic)
TupleLess(a, b) ==
    \E i \in 1..3 : a[i] < b[i] /\ \A j \in 1..(i - 1) : a[j] = b[j]

underlying_length == Len(_od)

_length ==
    LET length == underlying_length
    IN  IF is_po2(length) THEN length ELSE next_po2(1 + length)

\* reserves the extra slot one colour before the table is full
size_offset_before_full ==
    IF _ensure_transparent /\ underlying_length + 1 = _length THEN 1 ELSE 0

_size_offset ==
    IF _ensure_transparent /\ underlying_length = _length THEN 1 ELSE 0

size == bit_length(_length) - 2 + _size_offset

__len__ == IntPow2(1 + size)

\* yield from self._od: the keys, in insertion order
underlying == [i \in 1..Len(_od) |-> _od[i].key]

\* repeat(x, n) yields nothing for n <= 0
repeat(x, n) == [i \in 1..n |-> x]

\* pads to _length(), forgetting the slot reserved for transparency
iter_pad_to_length == underlying \o repeat(BLACK, _length - underlying_length)

__iter__ == underlying \o repeat(BLACK, __len__ - underlying_length)

\* [component for rgb in rgbs for component in rgb], every rgb a 3-tuple
Flatten(rgbs) ==
    [k \in 1..(3 * Len(rgbs)) |-> rgbs[((k - 1) \div 3) + 1][((k - 1) % 3) + 1]]

\* bytes([...]) raises ValueError for a component outside range(256): <<-1>>
__bytes__ ==
    LET components == Flatten(__iter__)
    IN  IF \A i \in 1..Len(components) : components[i] \in 0..255
        THEN components
        ELSE <<-1>>

\* compares with the most recently stored colour only
contains_last_only(color) == Len(_li) > 0 /\ _li[Len(_li)] = color

\* `color in self`: ColorTable defines no __contains__, so Python iterates
__contains__(color) == color \in Range(__iter__)

OdHas(color) == \E i \in 1..Len(_od) : _od[i].key = color

\* self._od[color]
OdGet(color) == _od[CHOOSE i \in 1..Len(_od) : _od[i].key = color].value

ValidColor(color) ==
    /\ Len(color) = 3
    /\ ~TupleLess(color, BLACK)
    /\ TupleLess(color, <<256, 256, 256>>)

Call(op, color, result, index) ==
    [op |-> op, color |-> color, result |-> result, index |-> index]

ensure_transparent_color ==
    /\ ops < MaxOps
    /\ _ensure_transparent' = TRUE
    /\ last' = Call("ensure_transparent_color", BLACK, "ok", -1)
    /\ ops' = ops + 1
    /\ UNCHANGED <<_od, _li, _len, hist>>

transparent_color_index ==
    /\ ops < MaxOps
    /\ _ensure_transparent' = TRUE
    /\ UNCHANGED <<_od, _li, _len, hist>>
    /\ last' = Call("transparent_color_index", BLACK, "ok", __len__' - 1)
    /\ ops' = ops + 1

append(color) ==
    /\ ops < MaxOps
    /\ ops' = ops + 1
    /\ IF ~ValidColor(color)
       THEN /\ last' = Call("append", color, "ValueError", -1)
            /\ UNCHANGED <<_ensure_transparent, _od, _li, _len, hist>>
       ELSE IF __contains__(color)
       THEN \* the message is formatted with self[color], a KeyError when the
            \* colour is only the black filler
            /\ last' = Call("append", color,
                            IF OdHas(color) THEN "ValueError" ELSE "KeyError", -1)
            /\ UNCHANGED <<_ensure_transparent, _od, _li, _len, hist>>
       ELSE /\ _od' = Append(_od, [key |-> color, value |-> _len])
            /\ _len' = _len + 1
            /\ _li' = Append(_li, color)
            /\ hist' = Append(hist, color)
            /\ last' = Call("append", color, "ok", _len)
            /\ UNCHANGED _ensure_transparent

\* self[value] for an int value: the call record of its outcome.  -1 gives
\* the TRANSPARENT sentinel, other negatives a ValueError, and everything
\* else is self._li[value], an IndexError from len(self._li) on
__getitem__(value) ==
    IF value = -1 THEN Call("__getitem__", BLACK, "TRANSPARENT", value)
    ELSE IF value < 0 THEN Call("__getitem__", BLACK, "ValueError", value)
    ELSE IF value < Len(_li) THEN Call("__getitem__", _li[value + 1], "ok", value)
    ELSE Call("__getitem__", BLACK, "IndexError", value)

\* indices looked up: negative ones, the first slot, the first slot after the
\* stored colours and the first slot after the declared length
IndexArgs == {-2, -1, 0, underlying_length, __len__}

getitem(value) ==
    /\ ops < MaxOps
    /\ ops' = ops + 1
    /\ last' = __getitem__(value)
    /\ UNCHANGED <<_ensure_transparent, _od, _li, _len, hist>>

\* ColorTable(iterable): extend() appends each colour to the empty table
CTInit ==
    \E n \in 0..MaxInitColors :
        /\ _ensure_transparent = FALSE
        /\ _od = [i \in 1..n |-> [key |-> InitColor(i), value |-> i - 1]]
        /\ _li = [i \in 1..n |-> InitColor(i)]
        /\ _len = n
        /\ hist = [i \in 1..n |-> InitColor(i)]
        /\ last = Call("__init__", BLACK, "ok", -1)
        /\ ops = 0

CTIdle ==
    /\ _ensure_transparent = FALSE
    /\ _od = <<>>
    /\ _li = <<>>
    /\ _len = 0
    /\ hist = <<>>
    /\ last = Call("__init__", BLACK, "ok", -1)
    /\ ops = 0

LZWIdle ==
    /\ _buffer = <<>>
    /\ _out = <<>>
    /\ appended = <<>>
    /\ _d = <<>>
    /\ min_code_size = 0
    /\ _code_size = 0
    /\ _cur_code = 0
    /\ _codes_used = {}
    /\ color_indices = <<>>
    /\ idx_stream = 0
    /\ idx_buffer = <<>>
    /\ pc = "idle"

InitCT == CTInit /\ LZWIdle /\ ObjIdle

NextCT ==
    \/ \E color \in Palette : append(color) /\ UNCHANGED <<bsVars, tblVars, cmpVars, objVars>>
    \/ ensure_transparent_color /\ UNCHANGED <<bsVars, tblVars, cmpVars, objVars>>
    \/ transparent_color_index /\ UNCHANGED <<bsVars, tblVars, cmpVars, objVars>>

SpecCT == InitCT /\ [][NextCT]_vars

\* the colour table with lookups by index among its other calls
NextCTLookup ==
    \/ NextCT
    \/ \E value \in IndexArgs : getitem(value) /\ UNCHANGED <<bsVars, tblVars, cmpVars, objVars>>

SpecCTLookup == InitCT /\ [][NextCTLookup]_vars

-----------------------------------------------------------------------------
(* lzw.BitStream; a stream is the record of its two fields *)

NewBitStream == [_buffer |-> <<>>, _out |-> <<>>]

\* self._buffer[7::-1]: elements 7, 6, ..., 0, or all of them reversed when
\* the buffer holds fewer than 8
Slice7Down(buf) ==
    LET top == IF Len(buf) < 8 THEN Len(buf) ELSE 8
    IN  [i \in 1..top |-> buf[top + 1 - i]]

\* del self._buffer[:8]
DelFirst8(buf) == IF Len(buf) <= 8 THEN <<>> ELSE SubSeq(buf, 9, Len(buf))

_consume_byte(bs) ==
    [_buffer |-> DelFirst8(bs._buffer),
     _out |-> Append(bs._out, join_bits(Slice7Down(bs._buffer)))]

\* while n: buffer.append(n % 2); n //= 2
LowBitsFirst(n) == [i \in 1..bit_length(n) |-> (n \div (2 ^ (i - 1))) % 2]

BitStream_append(bs, n, code_size) ==
    LET fill == code_size - bit_length(n)
        extended == [bs EXCEPT !._buffer = @ \o LowBitsFirst(n) \o repeat(0, fill)]
    IN  IF Len(extended._buffer) >= 8 THEN _consume_byte(extended) ELSE extended

\* bytes(stream): the stream after the call; its _out is the value returned
BitStream_bytes(bs) == IF bs._buffer # <<>> THEN _consume_byte(bs) ELSE bs

-----------------------------------------------------------------------------
(* lzw.CodeTable; a table is the record of its fields, `out` its BitStream *)

MAX_CODE_SIZE == 12

\* self.out.append(n, self._code_size)
Emit(t, n) ==
    [t EXCEPT !.out = BitStream_append(@, n, t._code_size),
              !.appended = Append(@, <<n, t._code_size>>)]

clear(t) == Emit(t, t._clear)

eoi(t) == Emit(t, t._eoi)

CodeTable_contains(t, key) == key \in DOMAIN t._d

output(t, indices) == Emit(t, t._d[indices])

__setitem__(t, key, value) ==
    LET used == [t EXCEPT !._codes_used = @ \cup {value}]
        sized == IF value = 2 ^ used._code_size
                 THEN IF used._code_size = MAX_CODE_SIZE
                      THEN [clear(used) EXCEPT !._code_size = t._first_code_size]
                      ELSE [used EXCEPT !._code_size = @ + 1]
                 ELSE used
    IN  [sized EXCEPT !._d = (key :> value) @@ @]

RECURSIVE SkipUsed(_, _)
\* while self._cur_code in self._codes_used: self._cur_code += 1
SkipUsed(code, used) == IF code \in used THEN SkipUsed(code + 1, used) ELSE code

add(t, indices) ==
    LET set == __setitem__(t, indices, t._cur_code)
    IN  [set EXCEPT !._cur_code = SkipUsed(@, set._codes_used)]

MinCodeSize(color_table_size) ==
    LET capped == IF MAX_CODE_SIZE < 1 + color_table_size
                  THEN MAX_CODE_SIZE ELSE 1 + color_table_size
    IN  IF capped < 2 THEN 2 ELSE capped

\* CodeTable(color_table): no initial code equals 2 ** _code_size, so
\* __setitem__ only records each of them
CodeTable(color_table_size) ==
    LET mcs == MinCodeSize(color_table_size)
        max_code == 2 ^ mcs - 1
    IN  [min_code_size |-> mcs,
         _first_code_size |-> 1 + mcs,
         _max_code |-> max_code,
         _clear |-> 1 + max_code,
         _eoi |-> 2 + max_code,
         _d |-> [key \in {<<color_code>> : color_code \in 0..(2 + max_code)}
                   |-> key[1]],
         _code_size |-> 1 + mcs,
         _cur_code |-> 3 + max_code,
         _codes_used |-> 0..(2 + max_code),
         out |-> NewBitStream,
         appended |-> <<>>]

-----------------------------------------------------------------------------
(* lzw.compress(color_indices, color_table); a call in progress is the      *)
(* record of its code table, its locals and its position                    *)

\* code_table = CodeTable(color_table); idx_buffer = next(idx_stream),;
\* code_table.clear()
compress_begin(indices, color_table_size) ==
    IF indices = <<>>
    THEN [t |-> CodeTable(color_table_size), idx_stream |-> 0,
          idx_buffer |-> <<>>, pc |-> "StopIteration"]
    ELSE [t |-> clear(CodeTable(color_table_size)), idx_stream |-> 1,
          idx_buffer |-> <<indices[1]>>, pc |-> "loop"]

\* one iteration of `for k in idx_stream`
compress_iteration(c, indices) ==
    LET k == indices[c.idx_stream + 1]
        extended == Append(c.idx_buffer, k)
        consumed == [c EXCEPT !.idx_stream = @ + 1]
    IN  IF CodeTable_contains(c.t, extended)
        THEN [consumed EXCEPT !.idx_buffer = extended]
        ELSE IF ~CodeTable_contains(c.t, c.idx_buffer)
        THEN [consumed EXCEPT !.pc = "KeyError"]
        ELSE [consumed EXCEPT !.t = add(output(c.t, c.idx_buffer), extended),
                              !.idx_buffer = <<k>>]

\* compress_end with the two emissions swapped: the end code, then the code
\* of the buffer
compress_end_eoi_first(c) ==
    IF ~CodeTable_contains(c.t, c.idx_buffer)
    THEN [c EXCEPT !.pc = "KeyError"]
    ELSE LET ended == output(eoi(c.t), c.idx_buffer)
         IN  [c EXCEPT !.t = [ended EXCEPT !.out = BitStream_bytes(@)],
                       !.pc = "done"]

\* the input is exhausted: output(idx_buffer), eoi(), return bytes(out)
compress_end(c) ==
    IF ~CodeTable_contains(c.t, c.idx_buffer)
    THEN [c EXCEPT !.pc = "KeyError"]
    ELSE LET ended == eoi(output(c.t, c.idx_buffer))
         IN  [c EXCEPT !.t = [ended EXCEPT !.out = BitStream_bytes(@)],
                       !.pc = "done"]

\* the call in progress, as the variables hold it
Current ==
    [t |-> [min_code_size |-> min_code_size,
            _first_code_size |-> 1 + min_code_size,
            _max_code |-> 2 ^ min_code_size - 1,
            _clear |-> 2 ^ min_code_size,
            _eoi |-> 2 ^ min_code_size + 1,
            _d |-> _d, _code_size |-> _code_size, _cur_code |-> _cur_code,
            _codes_used |-> _codes_used,
            out |-> [_buffer |-> _buffer, _out |-> _out],
            appended |-> appended],
     idx_stream |-> idx_stream, idx_buffer |-> idx_buffer, pc |-> pc]

Becomes(c) ==
    /\ min_code_size' = c.t.min_code_size
    /\ _d' = c.t._d
    /\ _code_size' = c.t._code_size
    /\ _cur_code' = c.t._cur_code
    /\ _codes_used' = c.t._codes_used
    /\ _buffer' = c.t.out._buffer
    /\ _out' = c.t.out._out
    /\ appended' = c.t.appended
    /\ idx_stream' = c.idx_stream
    /\ idx_buffer' = c.idx_buffer
    /\ pc' = c.pc

Holds(c) ==
    /\ min_code_size = c.t.min_code_size
    /\ _d = c.t._d
    /\ _code_size = c.t._code_size
    /\ _cur_code = c.t._cur_code
    /\ _codes_used = c.t._codes_used
    /\ _buffer = c.t.out._buffer
    /\ _out = c.t.out._out
    /\ appended = c.t.appended
    /\ idx_stream = c.idx_stream
    /\ idx_buffer = c.idx_buffer
    /\ pc = c.pc

compress_start ==
    /\ pc = "call"
    /\ \E c \in {compress_begin(color_indices, size)} : Becomes(c)
    /\ UNCHANGED <<ctVars, color_indices, objVars>>

compress_loop ==
    /\ pc = "loop"
    /\ idx_stream < Len(color_indices)
    /\ \E c \in {compress_iteration(Current, color_indices)} : Becomes(c)
    /\ UNCHANGED <<ctVars, color_indices, objVars>>

compress_return ==
    /\ pc = "loop"
    /\ idx_stream = Len(color_indices)
    /\ \E c \in {compress_end(Current)} : Becomes(c)
    /\ UNCHANGED <<ctVars, color_indices, objVars>>

\* the colour table handed to compress: n colours, the flag as given
TableOf(n, reserve) ==
    /\ _ensure_transparent = reserve
    /\ _od = [i \in 1..n |-> [key |-> InitColor(i), value |-> i - 1]]
    /\ _li = [i \in 1..n |-> InitColor(i)]
    /\ _len = n
    /\ hist = [i \in 1..n |-> InitColor(i)]
    /\ last = Call("__init__", BLACK, "ok", -1)
    /\ ops = 0

RECURSIVE SeqsUpTo(_, _)
\* the sequences over S of length 0..n
SeqsUpTo(S, n) ==
    IF n = 0 THEN {<<>>}
    ELSE LET shorter == SeqsUpTo(S, n - 1)
         IN  shorter \cup {Append(s, x) : s \in shorter, x \in S}

Ramp(n) == [i \in 1..n |-> i - 1]

CompressCalled ==
    /\ pc = "call"
    /\ _buffer = <<>>
    /\ _out = <<>>
    /\ appended = <<>>
    /\ _d = <<>>
    /\ min_code_size = 0
    /\ _code_size = 0
    /\ _cur_code = 0
    /\ _codes_used = {}
    /\ idx_stream = 0
    /\ idx_buffer = <<>>

\* compress is called with a small table and any input over its indices, or
\* with a 256-colour table and an input 0, 1, 2, ...
InitLZW ==
    /\ \/ \E n \in 1..MaxColors : \E reserve \in BOOLEAN :
              /\ TableOf(n, reserve)
              /\ color_indices \in SeqsUpTo(0..(__len__ - 1), MaxInputLen)
       \/ /\ TableOf(256, FALSE)
          /\ color_indices \in {Ramp(n) : n \in 1..MaxRampLen}
    /\ CompressCalled
    /\ ObjIdle

NextLZW ==
    \/ compress_start
    \/ compress_loop
    \/ compress_return

SpecLZW == InitLZW /\ [][NextLZW]_vars

-----------------------------------------------------------------------------
(* compress on an input that fills the dictionary *)

\* An input over a 256-colour table in which no pair of neighbours occurs
\* twice, so that every index but the first adds a dictionary entry: run j
\* (j = 0, 1, ...) is the multiples of 2j + 1 modulo 256. It is followed by a
\* tail repeating the indices that ended the runs.
LongRuns == 256 * LongBlocks

LongIndex(i) ==
    LET at == IF i <= LongRuns THEN i - 1 ELSE LongRuns - 2 + ((i - LongRuns - 1) % 2)
    IN  ((at % 256) * (2 * (at \div 256) + 1)) % 256

LongInput == [i \in 1..(LongRuns + LongTail) |-> LongIndex(i)]

RECURSIVE Iterated(_, _, _)
\* the call c after n more iterations of the loop over indices
Iterated(c, indices, n) ==
    IF n = 0 THEN c
    ELSE IF n = 1 THEN compress_iteration(c, indices)
    ELSE CHOOSE after \in
             UNION {{Iterated(half, indices, n - (n \div 2)) :
                        half \in {Iterated(c, indices, n \div 2)}}} : TRUE

\* compress was called on the long input and has consumed all of it but the
\* last LongLeft or ShortLeft indices of its runs and its tail
InitLZWFull ==
    /\ TableOf(256, FALSE)
    /\ color_indices = LongInput
    /\ \E far \in {Iterated(compress_begin(LongInput, size), LongInput,
                            LongRuns - LongLeft - 1)} :
           \/ Holds(far)
           \/ \E near \in {Iterated(far, LongInput, LongLeft - ShortLeft)} :
                  Holds(near)
    /\ ObjIdle

NextLZWFull ==
    \/ compress_loop
    \/ compress_return

SpecLZWFull == InitLZWFull /\ [][NextLZWFull]_vars

-----------------------------------------------------------------------------
(* A BitStream used on its own: append calls, then bytes(stream) *)

StreamCreated ==
    /\ pc = "stream"
    /\ _buffer = NewBitStream._buffer
    /\ _out = NewBitStream._out
    /\ appended = <<>>
    /\ _d = <<>>
    /\ min_code_size = 0
    /\ _code_size = 0
    /\ _cur_code = 0
    /\ _codes_used = {}
    /\ color_indices = <<>>
    /\ idx_stream = 0
    /\ idx_buffer = <<>>

CodeSizes == 2..MAX_CODE_SIZE

\* codes of a width: no bit, the lowest, the highest, and every bit set
CodesOf(code_size) == {0, 1, 2 ^ (code_size - 1), 2 ^ code_size - 1}

Stream == [_buffer |-> _buffer, _out |-> _out]

stream_append(n, code_size) ==
    /\ pc = "stream"
    /\ Len(appended) < MaxAppends
    /\ \E bs \in {BitStream_append(Stream, n, code_size)} :
           /\ _buffer' = bs._buffer
           /\ _out' = bs._out
    /\ appended' = Append(appended, <<n, code_size>>)
    /\ UNCHANGED <<ctVars, tblVars, cmpVars, objVars>>

stream_bytes ==
    /\ pc = "stream"
    /\ \E bs \in {BitStream_bytes(Stream)} :
           /\ _buffer' = bs._buffer
           /\ _out' = bs._out
    /\ pc' = "bytes"
    /\ UNCHANGED <<ctVars, tblVars, appended, color_indices, idx_stream, idx_buffer,
                   objVars>>

InitBS == CTIdle /\ StreamCreated /\ ObjIdle

NextBS ==
    \/ \E code_size \in CodeSizes : \E n \in CodesOf(code_size) :
           stream_append(n, code_size)
    \/ stream_bytes

SpecBS == InitBS /\ [][NextBS]_vars

-----------------------------------------------------------------------------
(* util.subblockify and classes.CommentExtension *)

\* str.encode('ascii'): a str is the sequence of its code points
encode_ascii(str) ==
    IF \A i \in 1..Len(str) : str[i] < 128
    THEN Returns(str)
    ELSE Raises("UnicodeEncodeError")

\* data[a:b] for 0 <= a
Slice(data, a, b) ==
    LET stop == IF b < Len(data) THEN b ELSE Len(data)
    IN  IF a >= stop THEN <<>> ELSE SubSeq(data, a + 1, stop)

\* list(range(255, n, 255))
Range255(n) == [j \in 1..(IF n > 255 THEN (n - 1) \div 255 ELSE 0) |-> 255 * j]

RECURSIVE FullRuns(_, _)
\* the loop: 0xff and data[idx-255:idx] for each of the first n values of idx
FullRuns(data, n) ==
    IF n = 0 THEN <<>>
    ELSE FullRuns(data, n - 1) \o <<255>> \o Slice(data, 255 * n - 255, 255 * n)

\* idx is the loop variable: it is unbound after a loop that never ran
subblockify(data) ==
    LET idxs == Range255(Len(data))
        ba == FullRuns(data, Len(idxs))
    IN  IF idxs = <<>>
        THEN Raises("UnboundLocalError")
        ELSE LET idx == idxs[Len(idxs)]
             IN  Returns(ba \o <<Len(data) - idx>> \o Slice(data, idx, Len(data)))

\* Extension.__bytes__ of a CommentExtension: INTRODUCER, LABEL, no BLOCK_SIZE
CommentExtension_super_bytes == <<33, 254>>

\* CommentExtension.__bytes__
CommentExtension_bytes(data_str) ==
    LET data == encode_ascii(data_str)
    IN  IF data.raised # "" THEN data
        ELSE LET blocks == subblockify(data.value)
             IN  IF blocks.raised # "" THEN blocks
                 ELSE Returns(CommentExtension_super_bytes \o blocks.value \o <<0>>)

\* the text of n characters a comment is created with: printable ASCII, or
\* the same with a first character outside ASCII
Text(n, first) == [i \in 1..n |-> IF i = 1 THEN first ELSE 32 + (i % 95)]

FirstChars == {65, 233}

\* CommentExtension(data)
CommentCreated ==
    /\ \E n \in 0..MaxDataLen : \E first \in FirstChars : _data = Text(n, first)
    /\ field = None
    /\ images = <<>>
    /\ logical_screen_descriptor = None
    /\ netscape_looping_extension = None
    /\ global_delay_time = 0
    /\ global_color_table_size = None
    /\ new_frame = None
    /\ called = <<Called("CommentExtension", <<>>)>>
    /\ returned = Returns(<<>>)

\* bytes(comment)
comment_bytes ==
    /\ LastCalled.op = "CommentExtension"
    /\ called' = Append(called, Called("CommentExtension.__bytes__", <<>>))
    /\ returned' = CommentExtension_bytes(_data)
    /\ UNCHANGED <<ctVars, bsVars, tblVars, cmpVars, extVars, gifVars>>

\* comment.data
comment_data ==
    /\ LastCalled.op = "CommentExtension"
    /\ called' = Append(called, Called("CommentExtension.data", <<>>))
    /\ returned' = encode_ascii(_data)
    /\ UNCHANGED <<ctVars, bsVars, tblVars, cmpVars, extVars, gifVars>>

\* util.subblockify(comment.data), data being ASCII
call_subblockify ==
    /\ LastCalled.op = "CommentExtension.data"
    /\ returned.raised = ""
    /\ called' = Append(called, Called("subblockify", <<>>))
    /\ returned' = subblockify(returned.value)
    /\ UNCHANGED <<ctVars, bsVars, tblVars, cmpVars, extVars, gifVars>>

InitSB == CTIdle /\ LZWIdle /\ CommentCreated

NextSB ==
    \/ comment_bytes
    \/ comment_data
    \/ call_subblockify

SpecSB == InitSB /\ [][NextSB]_vars

-----------------------------------------------------------------------------
(* classes.TableColorField and classes.ImageColorField *)

\* int(b) of a bool
int(b) == IF b THEN 1 ELSE 0

\* bin(n)[2:] for n >= 0: the binary digits, the most significant first
bin_digits(n) ==
    IF n = 0 THEN <<0>>
    ELSE [i \in 1..bit_length(n) |-> (n \div (2 ^ (bit_length(n) - i))) % 2]

\* bin(n)[2:].zfill(pad): zeros are added in front up to pad digits, and no
\* digit is removed
to_bin(n, pad) == repeat(0, pad - Len(bin_digits(n))) \o bin_digits(n)

\* takes every positional argument as one bit
join_bits_varargs(args) == Returns(join_bits(args))

\* util.join_bits(*args): join_bits has the single parameter byteseq, so a
\* call with any other number of positional arguments raises TypeError
join_bits_call(args) ==
    IF Len(args) = 1 THEN Returns(join_bits(args[1])) ELSE Raises("TypeError")

\* TableColorField.__int__; check_null_slots raises for a slot that is None,
\* and of the four slots only size is None by default
TableColorField_int(f) ==
    IF f.size = None THEN Raises("ValueError")
    ELSE join_bits_call(<<int(f.has_global_color_table)>>
                        \o to_bin(f.color_resolution, 3)
                        \o <<int(f.sort)>>
                        \o to_bin(f.size[1], 3))

\* ImageColorField.__int__
ImageColorField_int(f) ==
    join_bits_call(<<int(f.has_local_color_table), int(f.interlace), int(f.sort),
                     0, 0>>
                   \o to_bin(f.local_color_table_size, 3))

\* values given to the numeric sub-fields
FieldValues == 0..MaxFieldValue

\* TableColorField(has_global_color_table, color_resolution, sort, size),
\* size an int or left at its default None
TableColorFields ==
    [class : {"TableColorField"},
     has_global_color_table : BOOLEAN,
     color_resolution : FieldValues,
     sort : BOOLEAN,
     size : {None} \cup {Some(v) : v \in FieldValues}]

\* ImageColorField(has_local_color_table, interlace, sort, local_color_table_size)
ImageColorFields ==
    [class : {"ImageColorField"},
     has_local_color_table : BOOLEAN,
     interlace : BOOLEAN,
     sort : BOOLEAN,
     local_color_table_size : FieldValues]

FieldCreated ==
    /\ field \in TableColorFields \cup ImageColorFields
    /\ _data = <<>>
    /\ images = <<>>
    /\ logical_screen_descriptor = None
    /\ netscape_looping_extension = None
    /\ global_delay_time = 0
    /\ global_color_table_size = None
    /\ new_frame = None
    /\ called = <<Called("__init__", <<>>)>>
    /\ returned = Returns(<<>>)

\* int(field) of a TableColorField
table_color_field_int ==
    /\ LastCalled.op = "__init__"
    /\ field.class = "TableColorField"
    /\ called' = Append(called, Called("__int__", <<>>))
    /\ returned' = TableColorField_int(field)
    /\ UNCHANGED <<ctVars, bsVars, tblVars, cmpVars, extVars, gifVars>>

\* int(field) of an ImageColorField
image_color_field_int ==
    /\ LastCalled.op = "__init__"
    /\ field.class = "ImageColorField"
    /\ called' = Append(called, Called("__int__", <<>>))
    /\ returned' = ImageColorField_int(field)
    /\ UNCHANGED <<ctVars, bsVars, tblVars, cmpVars, extVars, gifVars>>

InitPF == CTIdle /\ LZWIdle /\ FieldCreated

NextPF ==
    \/ table_color_field_int
    \/ image_color_field_int

SpecPF == InitPF /\ [][NextPF]_vars

-----------------------------------------------------------------------------
(* A ColorTable as a value: the record of its slots.  A handler of the      *)
(* container makes several calls on the global colour table in one step.    *)

GlobalTable ==
    [_ensure_transparent |-> _ensure_transparent, _od |-> _od, _li |-> _li,
     _len |-> _len]

ColorTable_underlying(t) == [i \in 1..Len(t._od) |-> t._od[i].key]

ColorTable_length(t) ==
    LET length == Len(t._od)
    IN  IF is_po2(length) THEN length ELSE next_po2(1 + length)

ColorTable_size_offset(t) ==
    IF t._ensure_transparent /\ Len(t._od) = ColorTable_length(t) THEN 1 ELSE 0

ColorTable_size(t) ==
    bit_length(ColorTable_length(t)) - 2 + ColorTable_size_offset(t)

ColorTable_len(t) == IntPow2(1 + ColorTable_size(t))

ColorTable_iter(t) ==
    ColorTable_underlying(t) \o repeat(BLACK, ColorTable_len(t) - Len(t._od))

ColorTable_bytes(t) ==
    LET components == Flatten(ColorTable_iter(t))
    IN  IF \A i \in 1..Len(components) : components[i] \in 0..255
        THEN Returns(components)
        ELSE Raises("ValueError")

\* self._od[color] of a stored colour
ColorTable_index(t, color) ==
    t._od[CHOOSE i \in 1..Len(t._od) : t._od[i].key = color].value

\* append: the table after the call and the exception raised, if any
ColorTable_append(t, color) ==
    IF ~ValidColor(color) THEN [t |-> t, raised |-> "ValueError"]
    ELSE IF color \in Range(ColorTable_iter(t))
    THEN [t |-> t,
          raised |-> IF color \in Range(ColorTable_underlying(t))
                     THEN "ValueError" ELSE "KeyError"]
    ELSE [t |-> [t EXCEPT !._od = Append(@, [key |-> color, value |-> t._len]),
                          !._len = @ + 1,
                          !._li = Append(@, color)],
          raised |-> ""]

RECURSIVE ColorTable_extend(_, _)
\* extend: append each colour in turn; the first exception ends the call and
\* the colours appended before it stay
ColorTable_extend(t, colors) ==
    IF colors = <<>> THEN [t |-> t, raised |-> ""]
    ELSE LET first == ColorTable_append(t, Head(colors))
         IN  IF first.raised # "" THEN first
             ELSE ColorTable_extend(first.t, Tail(colors))

-----------------------------------------------------------------------------
(* Blocks of classes.py used by the container *)

\* struct.pack of an unsigned field: 'B' and little-endian 'H'
pack_B(v) == IF v \in 0..255 THEN Returns(<<v>>) ELSE Raises("struct.error")
pack_H(v) ==
    IF v \in 0..65535 THEN Returns(<<v % 256, v \div 256>>) ELSE Raises("struct.error")

RECURSIVE Joined(_)
\* b''.join(map(bytes, parts)), parts the outcomes of the bytes() calls in
\* order: the first that raised ends the call
Joined(parts) ==
    IF parts = <<>> THEN Returns(<<>>)
    ELSE IF Head(parts).raised # "" THEN Head(parts)
    ELSE LET rest == Joined(Tail(parts))
         IN  IF rest.raised # "" THEN rest
             ELSE Returns(Head(parts).value \o rest.value)

\* Header.__bytes__: b'GIF' + b'89a'
Header_bytes == Returns(<<71, 73, 70, 56, 57, 97>>)

\* TableColorField(): size is None until it is set
NewTableColorField ==
    [class |-> "TableColorField", has_global_color_table |-> TRUE,
     color_resolution |-> 1, sort |-> FALSE, size |-> None]

\* LogicalScreenDescriptor(canvas_width, canvas_height)
LogicalScreenDescriptor(canvas_width, canvas_height) ==
    [canvas_width |-> canvas_width, canvas_height |-> canvas_height,
     color_field |-> NewTableColorField, background_color_index |-> None,
     pixel_aspect_ratio |-> Some(0)]

\* LogicalScreenDescriptor.__bytes__: check_null_slots, then
\* struct.pack('<HHBBB', ...) with int(self.color_field) among its arguments
LogicalScreenDescriptor_bytes(lsd) ==
    IF \/ lsd.canvas_width = None
       \/ lsd.canvas_height = None
       \/ lsd.background_color_index = None
       \/ lsd.pixel_aspect_ratio = None
    THEN Raises("ValueError")
    ELSE LET packed == TableColorField_int(lsd.color_field)
         IN  IF packed.raised # "" THEN packed
             ELSE Joined(<<pack_H(lsd.canvas_width[1]), pack_H(lsd.canvas_height[1]),
                           pack_B(packed.value),
                           pack_B(lsd.background_color_index[1]),
                           pack_B(lsd.pixel_aspect_ratio[1])>>)

\* int.to_bytes(2, 'little')
to_bytes_2_little(v) ==
    IF v \in 0..65535 THEN Returns(<<v % 256, v \div 256>>) ELSE Raises("OverflowError")

\* NetscapeApplicationExtension.__bytes__: introducer, label and block size
\* 11 (Extension), the length 11 of b'NETSCAPE' + b'2.0' and those bytes
\* (ApplicationExtension), then 3, 1, the loop count and 0
NetscapeApplicationExtension_bytes(ext) ==
    Joined(<<Returns(<<33, 255, 11>>),
             Returns(<<11, 78, 69, 84, 83, 67, 65, 80, 69, 50, 46, 48>>),
             Returns(<<3, 1>>),
             to_bytes_2_little(ext.loop_count),
             Returns(<<0>>)>>)

DISPOSAL_METHODS == <<"None", "accumulate", "replace", "restore">>

\* GraphicControlField(disposal_method): the setter indexes the list
\* DISPOSAL_METHODS with its argument and turns only a KeyError into a
\* ValueError; None as index is a TypeError
GraphicControlField(disposal_method) ==
    IF disposal_method = None THEN Raises("TypeError")
    ELSE IF disposal_method[1] \notin -4..3 THEN Raises("IndexError")
    ELSE Returns([_disposal_method |-> DISPOSAL_METHODS[(disposal_method[1] % 4) + 1],
                  wait_for_user_input |-> FALSE,
                  has_transparency |-> TRUE])

\* GraphicControlField.__int__: to_bin is given the method's name, and bin()
\* of a str or of None is a TypeError
GraphicControlField_int(f) == Raises("TypeError")

\* GraphicControlExtension(delay_time, transparent_color_index); its field
\* is GraphicControlField() with the default disposal_method None
GraphicControlExtension(delay_time, transparent_index) ==
    LET made == GraphicControlField(None)
    IN  IF made.raised # "" THEN made
        ELSE Returns([field |-> made.value, delay_time |-> delay_time,
                      transparent_color_index |-> transparent_index])

\* bytearray([...]) of ints: a ValueError for one outside range(256)
bytearray_of(ints) ==
    IF \A i \in 1..Len(ints) : ints[i] \in 0..255
    THEN Returns(ints) ELSE Raises("ValueError")

\* GraphicControlExtension.__bytes__
GraphicControlExtension_bytes(ext) ==
    LET packed == GraphicControlField_int(ext.field)
    IN  IF packed.raised # "" THEN packed
        ELSE Joined(<<Returns(<<33, 249, 4>>),
                      bytearray_of(<<4, packed.value, ext.delay_time,
                                     ext.transparent_color_index, 0>>)>>)

\* ImageDescriptor(width, height)
ImageDescriptor(width, height) ==
    [width |-> width, height |-> height, left |-> 0, top |-> 0,
     color_field |-> [class |-> "ImageColorField", has_local_color_table |-> FALSE,
                      interlace |-> FALSE, sort |-> FALSE,
                      local_color_table_size |-> 0]]

\* ImageDescriptor.__bytes__: struct.pack('<BHHHHB', 0x2c, ...)
ImageDescriptor_bytes(d) ==
    LET packed == ImageColorField_int(d.color_field)
    IN  IF packed.raised # "" THEN packed
        ELSE Joined(<<pack_B(44), pack_H(d.left), pack_H(d.top), pack_H(d.width),
                      pack_H(d.height), pack_B(packed.value)>>)

\* util._proxy_setf, the setter of every proxied attribute: it calls
\* setattr with two arguments, a TypeError
_proxy_setf(attr_name, proxied_attr, value) == Raises("TypeError")

\* lzw.compress(color_indices, color_table) as one call
compress(indices, color_table_size) ==
    LET begun == compress_begin(indices, color_table_size)
        ended == IF begun.pc = "loop"
                 THEN compress_end(Iterated(begun, indices, Len(indices) - 1))
                 ELSE begun
    IN  IF ended.pc = "done" THEN Returns(ended.t.out._out) ELSE Raises(ended.pc)

-----------------------------------------------------------------------------
(* core.Frame and core.GIF *)

\* the distinct colours of a pixel array, rows of colours
Colours(pixels) ==
    {pixels[r][c] : r \in 1..Len(pixels), c \in 1..Len(pixels[1])}

\* the orders in which a set may be iterated
Orderings(S) ==
    {order \in [1..Cardinality(S) -> S] :
        \A i, j \in 1..Cardinality(S) : order[i] = order[j] => i = j}

\* [row for row in pixels], flattened row by row: color_indices.flat
RECURSIVE Flat(_)
Flat(rows) == IF rows = <<>> THEN <<>> ELSE Head(rows) \o Flat(Tail(rows))

\* the container as the handlers below read it
GIFState ==
    [t |-> GlobalTable, global_delay_time |-> global_delay_time,
     global_color_table_size |-> global_color_table_size]

\* Frame(pixels, gif, use_graphic_control_extension=..., delay_time=...,
\* transparent_color_index=...) with no color_table of its own.  order is the
\* order in which the set self.colors.difference(underlying) is iterated.
\* Gives the exception raised, the global colour table and the container's
\* global_color_table_size after the call, the attributes __init__ assigned
\* to self before it returned or raised (_graphic_control_extension: the
\* arguments it called GraphicControlExtension with), and the frame if there
\* is one.
Frame(g, pixels, order, use_graphic_control_extension, delay_time, transparent_index) ==
    LET extended == ColorTable_extend(g.t, order)
    IN  IF extended.raised # ""
        THEN [raised |-> extended.raised, t |-> extended.t,
              global_color_table_size |-> g.global_color_table_size,
              self |-> [pixels |-> pixels, color_indices |-> None,
                        _graphic_control_extension |-> None],
              frame |-> None]
        ELSE LET table == extended.t
                 \* update_color_table_size: global_color_table.size()
                 sized == Some(ColorTable_size(table))
                 indices == [r \in 1..Len(pixels) |->
                               [c \in 1..Len(pixels[r]) |->
                                   ColorTable_index(table, pixels[r][c])]]
                 \* ImageDescriptor(*color_indices.shape): rows, then columns
                 descriptor == ImageDescriptor(Len(pixels), Len(pixels[1]))
                 delay == IF delay_time = None THEN g.global_delay_time
                          ELSE delay_time[1]
                 extension == GraphicControlExtension(delay, transparent_index)
                 \* self.color_indices is assigned and GraphicControlExtension
                 \* has been called with these arguments
                 self == [pixels |-> pixels, color_indices |-> Some(indices),
                          _graphic_control_extension |->
                              Some([delay_time |-> delay,
                                    transparent_color_index |-> transparent_index])]
             IN  IF extension.raised # ""
                 THEN [raised |-> extension.raised, t |-> table,
                       global_color_table_size |-> sized, self |-> self,
                       frame |-> None]
                 ELSE [raised |-> "", t |-> table,
                       global_color_table_size |-> sized, self |-> self,
                       frame |-> Some(
                           [pixels |-> pixels,
                            color_indices |-> indices,
                            image_descriptor |-> descriptor,
                            _graphic_control_extension |-> extension.value,
                            use_graphic_control_extension |->
                                use_graphic_control_extension])]

\* the set handed to extend by GIF.create_frame: the flag is set by reading
\* transparent_color_index before the frame's colours are compared
ColoursToAdd(pixels) == Colours(pixels) \ Range(ColorTable_underlying(GlobalTable))

\* GIF.create_frame(pixels, delay_time, transparent_color_index=...)
create_frame(g, pixels, order, delay_time, transparent_index) ==
    LET \* both branches read global_color_table.transparent_color_index,
        \* which sets the flag and gives len(table) - 1
        flagged == [g.t EXCEPT !._ensure_transparent = TRUE]
        table_index == ColorTable_len(flagged) - 1
        differs == \/ delay_time # None /\ delay_time[1] # g.global_delay_time
                   \/ /\ transparent_index # None
                      /\ transparent_index[1] # table_index
    IN  Frame([g EXCEPT !.t = flagged], pixels, order, differs,
              IF delay_time = None THEN Some(g.global_delay_time) ELSE delay_time,
              IF transparent_index = None THEN table_index
              ELSE transparent_index[1])

\* GIF.update_dims: two assignments to proxied attributes of the container
update_dims(image_descriptor) ==
    LET width == _proxy_setf("logical_screen_descriptor", "canvas_width",
                             image_descriptor.width)
    IN  IF width.raised # "" THEN width
        ELSE _proxy_setf("logical_screen_descriptor", "canvas_height",
                         image_descriptor.height)

\* Frame.__bytes__ of a frame that uses the global colour table
Frame_bytes(f, t) ==
    Joined((IF f.use_graphic_control_extension
            THEN <<GraphicControlExtension_bytes(f._graphic_control_extension)>>
            ELSE <<>>)
           \o <<ImageDescriptor_bytes(f.image_descriptor),
                compress(Flat(f.color_indices), ColorTable_size(t))>>)

\* GIF.__bytes__ once self[0] has been marked: the parts are joined in order
GIF_bytes(frames, lsd, t, looping) ==
    Joined(<<Header_bytes,
             LogicalScreenDescriptor_bytes(lsd),
             ColorTable_bytes(t),
             NetscapeApplicationExtension_bytes(looping)>>
           \o [i \in 1..Len(frames) |-> Frame_bytes(frames[i], t)]
           \o <<Returns(<<59>>)>>)

\* list.insert(idx, value) for 0 <= idx
ListInsert(list, idx, value) ==
    LET at == IF idx > Len(list) THEN Len(list) ELSE idx
    IN  SubSeq(list, 1, at) \o <<value>> \o SubSeq(list, at + 1, Len(list))

\* pixel arrays given to the container: 2 x 2 of three colours, 1 x 1,
\* one row of three pixels, and two rows of one pixel with black in it
RED == <<255, 0, 0>>
GREEN == <<0, 255, 0>>
BLUE == <<0, 0, 255>>
Pixels2x2 == <<<<RED, GREEN>>, <<BLUE, RED>>>>
PixelArrays ==
    {Pixels2x2, <<<<RED>>>>, <<<<GREEN, BLUE, GREEN>>>>, <<<<BLACK>>, <<RED>>>>}

\* the global colour table becomes t; hist gains the colours appended
TableBecomes(t) ==
    /\ _ensure_transparent' = t._ensure_transparent
    /\ _od' = t._od
    /\ _li' = t._li
    /\ _len' = t._len
    /\ hist' = hist \o SubSeq(t._li, Len(_li) + 1, Len(t._li))
    /\ UNCHANGED <<last, ops>>

\* GIF(loop_count, delay_time=..., canvas_width=..., canvas_height=...)
GIFCreated ==
    /\ \E dims \in {None, Some(2)} :
           logical_screen_descriptor = LogicalScreenDescriptor(dims, dims)
    /\ netscape_looping_extension = [loop_count |-> 0]
    /\ images = <<>>
    /\ global_delay_time = 0
    /\ global_color_table_size = None
    /\ new_frame = None
    /\ _data = <<>>
    /\ field = None
    /\ called = <<Called("GIF", <<>>)>>
    /\ returned = Returns(<<>>)

\* self.images.insert(idx, value) of insert, self.images[idx] = value of
\* __setitem__
Stored(op, idx, frame) ==
    IF op = "insert" THEN Returns(ListInsert(images, idx, frame))
    ELSE IF idx < Len(images) THEN Returns([images EXCEPT ![idx + 1] = frame])
    ELSE Raises("IndexError")

\* the body insert and __setitem__ share: build the frame, adopt its
\* dimensions, store it
FrameStored(op, idx, pixels) ==
    \E order \in Orderings(ColoursToAdd(pixels)) :
    \E made \in {create_frame(GIFState, pixels, order, None, None)} :
    \E dims \in {IF made.raised # "" THEN Raises(made.raised)
                 ELSE update_dims(made.frame[1].image_descriptor)} :
    \E kept \in {IF dims.raised # "" THEN dims ELSE Stored(op, idx, made.frame[1])} :
        /\ TableBecomes(made.t)
        /\ global_color_table_size' = made.global_color_table_size
        /\ new_frame' = Some(made.self)
        /\ images' = IF kept.raised # "" THEN images ELSE kept.value
        /\ returned' = IF kept.raised # "" THEN kept ELSE Returns(None)
        /\ called' = Append(called, Called(op, <<idx, pixels>>))
        /\ UNCHANGED <<logical_screen_descriptor, netscape_looping_extension,
                       global_delay_time, extVars, bsVars, tblVars, cmpVars>>

\* gif.insert(idx, pixels)
gif_insert(idx, pixels) ==
    /\ Len(called) <= MaxCalls
    /\ FrameStored("insert", idx, pixels)

\* gif[idx] = pixels
gif_setitem(idx, pixels) ==
    /\ Len(called) <= MaxCalls
    /\ FrameStored("__setitem__", idx, pixels)

\* gif.create_frame(pixels, delay_time, transparent_color_index=...)
gif_create_frame(pixels, delay_time, transparent_index) ==
    /\ Len(called) <= MaxCalls
    /\ \E order \in Orderings(ColoursToAdd(pixels)) :
       \E made \in {create_frame(GIFState, pixels, order, delay_time,
                                 transparent_index)} :
           /\ TableBecomes(made.t)
           /\ global_color_table_size' = made.global_color_table_size
           /\ new_frame' = Some(made.self)
           /\ returned' = IF made.raised # "" THEN Raises(made.raised)
                          ELSE Returns(made.frame)
           /\ called' = Append(called, Called("create_frame",
                                   <<pixels, delay_time, transparent_index>>))
    /\ UNCHANGED <<images, logical_screen_descriptor, netscape_looping_extension,
                   global_delay_time, extVars, bsVars, tblVars, cmpVars>>

\* gif.background_color_index = value, a proxied attribute of the container
gif_set_background_color_index(value) ==
    /\ Len(called) <= MaxCalls
    /\ returned' = _proxy_setf("logical_screen_descriptor", "background_color_index",
                               value)
    /\ called' = Append(called, Called("gif.background_color_index", <<value>>))
    /\ UNCHANGED <<ctVars, gifVars, extVars, bsVars, tblVars, cmpVars>>

\* gif.logical_screen_descriptor.background_color_index = value, a slot
lsd_set_background_color_index(value) ==
    /\ Len(called) <= MaxCalls
    /\ logical_screen_descriptor' =
           [logical_screen_descriptor EXCEPT !.background_color_index = Some(value)]
    /\ returned' = Returns(None)
    /\ called' = Append(called, Called("lsd.background_color_index", <<value>>))
    /\ UNCHANGED <<images, netscape_looping_extension, global_delay_time,
                   global_color_table_size, new_frame, ctVars, extVars, bsVars,
                   tblVars, cmpVars>>

\* gif.logical_screen_descriptor.color_field.size = value, a slot
color_field_set_size(value) ==
    /\ Len(called) <= MaxCalls
    /\ logical_screen_descriptor' =
           [logical_screen_descriptor EXCEPT !.color_field.size = Some(value)]
    /\ returned' = Returns(None)
    /\ called' = Append(called, Called("color_field.size", <<value>>))
    /\ UNCHANGED <<images, netscape_looping_extension, global_delay_time,
                   global_color_table_size, new_frame, ctVars, extVars, bsVars,
                   tblVars, cmpVars>>

\* bytes(gif)
gif_bytes ==
    /\ Len(called) <= MaxCalls
    /\ images' = IF images # <<>>
                 THEN [images EXCEPT ![1].use_graphic_control_extension = TRUE]
                 ELSE images
    /\ returned' = GIF_bytes(images', logical_screen_descriptor, GlobalTable,
                             netscape_looping_extension)
    /\ called' = Append(called, Called("__bytes__", <<>>))
    /\ UNCHANGED <<logical_screen_descriptor, netscape_looping_extension,
                   global_delay_time, global_color_table_size, new_frame, ctVars,
                   extVars, bsVars, tblVars, cmpVars>>

\* arguments of create_frame: left out, equal to the container's, different
DelayTimes == {None, Some(0), Some(5)}
TransparentIndices == {None, Some(3)}

InitGIF == CTIdle /\ LZWIdle /\ GIFCreated

NextGIF ==
    \/ \E pixels \in PixelArrays : gif_insert(Len(images), pixels)
    \/ gif_setitem(0, Pixels2x2)
    \/ \E delay_time \in DelayTimes :
       \E transparent_index \in TransparentIndices :
           gif_create_frame(Pixels2x2, delay_time, transparent_index)
    \/ gif_set_background_color_index(0)
    \/ lsd_set_background_color_index(0)
    \/ \E value \in {1, 2} : color_field_set_size(value)
    \/ gif_bytes

SpecGIF == InitGIF /\ [][NextGIF]_vars

-----------------------------------------------------------------------------
(* Properties of the colour table *)

PowersOfTwo == {2 ^ k : k \in 0..12}

IsPowerOfTwo(n) == n \in PowersOfTwo

LeastPowerOfTwoAtLeast(m) ==
    CHOOSE p \in PowersOfTwo : p >= m /\ \A q \in PowersOfTwo : q >= m => p <= q

MaxOf(a, b) == IF a >= b THEN a ELSE b

RGB == 0..255

IsRGB(color) == \A c \in 1..3 : color[c] \in RGB

\* the step is a call of append
AppendCalled == ops' = ops + 1 /\ last'.op = "append"

\* C5: for every number n in [0, 256] of inserted colours the declared length
\* len(table) is the least power of two >= max(n, 1); it is at least 2 when
\* transparency is reserved and n is already a power of two.
C5_DeclaredLength ==
    LET n == Len(hist)
        reservedSlot == _ensure_transparent /\ IsPowerOfTwo(n)
    IN  n <= 256 =>
            /\ ~reservedSlot => __len__ = LeastPowerOfTwoAtLeast(MaxOf(n, 1))
            /\ reservedSlot => __len__ >= 2

\* C6: in every reachable state of a colour table the declared length is a
\* power of two in [2, 256] and the underlying length is at most the declared
\* length.
C6_DeclaredLengthRange ==
    /\ IsPowerOfTwo(__len__)
    /\ __len__ >= 2
    /\ __len__ <= 256
    /\ underlying_length <= __len__

\* C7: in every reachable state of a colour table, the empty table included,
\* declared_length = 2^(size_field + 1); the declared length is an integer, so
\* the exponent cannot be negative.
C7_LengthIsPowerOfSize ==
    /\ size + 1 >= 0
    /\ __len__ = 2 ^ (size + 1)

\* C8: after inserting n distinct colours, iterating the table yields those n
\* colours in insertion order followed by declared_length - n black entries,
\* and the serialized table is the 3 * declared_length bytes of these colours
\* in RGB order.
C8_IterationRoundTrip ==
    LET n == Len(hist)
        declared_length == __len__
        colours == __iter__
        serialized == __bytes__
    IN  (\A i \in 1..n : IsRGB(hist[i])) =>
        /\ Len(colours) = declared_length
        /\ \A i \in 1..n : colours[i] = hist[i]
        /\ \A i \in (n + 1)..declared_length : colours[i] = BLACK
        /\ Len(serialized) = 3 * declared_length
        /\ \A i \in 1..declared_length : \A c \in 1..3 :
               serialized[3 * (i - 1) + c] = colours[i][c]

\* a table with black padding, and one whose reserved slot is the only padding
C8_Witness ==
    /\ last.op = "append"
    /\ last.result = "ok"
    /\ _ensure_transparent
    /\ Len(hist) = 4
    /\ __len__ = 8

\* C9: in every reachable state, inserting a valid RGB colour (black included)
\* that was not explicitly inserted before succeeds and assigns the next
\* sequential index, the underlying length before the call; the indices of
\* the colours inserted before are unchanged.
C9_InsertAssignsNextIndex ==
    [][(AppendCalled /\ IsRGB(last'.color) /\ last'.color \notin Range(hist))
         => /\ last'.result = "ok"
            /\ last'.index = Len(hist)
            /\ hist' = Append(hist, last'.color)
            /\ \A i \in 1..Len(_od) : _od'[i] = _od[i] /\ _li'[i] = _li[i]]_vars

\* C10: inserting a colour that is already present fails with the duplicate
\* colour error and leaves the table unchanged (stored colours, indices,
\* underlying length, next index), so that a later successful insert receives
\* the next sequential index.
C10_DuplicateInsertFails ==
    [][AppendCalled =>
         /\ last'.color \in Range(hist) =>
                /\ last'.result = "ValueError"
                /\ UNCHANGED <<_od, _li, _len, _ensure_transparent, hist>>
         /\ last'.result = "ok" =>
                /\ last'.index = underlying_length
                /\ _od'[Len(_od')] = [key |-> last'.color, value |-> underlying_length]]_vars

\* a duplicate insert was refused after an earlier insert succeeded
C10_Witness ==
    /\ last.op = "append"
    /\ last.result = "ValueError"
    /\ last.color \in Range(hist)
    /\ Len(hist) >= 2

\* C11: lookup by a non-negative integer index returns the stored colour
\* below underlying_length, the black padding (0,0,0) from there up to the
\* declared length, and fails with an out-of-range error from the declared
\* length on.
C11_LookupByIndex ==
    (last.op = "__getitem__" /\ last.index >= 0) =>
        IF last.index < underlying_length
        THEN last.result = "ok" /\ last.color = _li[last.index + 1]
        ELSE IF last.index < __len__
        THEN last.result = "ok" /\ last.color = BLACK
        ELSE last.result = "IndexError"

\* C12: once the reserve-transparency flag is set, the underlying length is
\* strictly less than the declared length in every later state, so
\* transparent_index = declared_length - 1 is never the index of an
\* inserted colour.
C12_TransparentSlotFree ==
    _ensure_transparent =>
        /\ underlying_length < __len__
        /\ \A i \in 1..Len(_od) : _od[i].value # __len__ - 1

\* an insert after the flag was set has filled the table to a power of two,
\* and the declared length is twice that
C12_Witness ==
    /\ _ensure_transparent
    /\ last.op = "append"
    /\ last.result = "ok"
    /\ is_po2(underlying_length)
    /\ __len__ = 2 * underlying_length

-----------------------------------------------------------------------------
(* Properties of the bit stream, the code table and compress *)

\* the bits of a byte sequence, each byte's least significant bit first
BitsOf(bytes) ==
    [k \in 1..(8 * Len(bytes)) |->
        (bytes[((k - 1) \div 8) + 1] \div (2 ^ ((k - 1) % 8))) % 2]

\* the code_size low bits of n, lowest first
CodeBits(n, code_size) == [i \in 1..code_size |-> (n \div (2 ^ (i - 1))) % 2]

RECURSIVE AppendedBits(_)
AppendedBits(calls) ==
    IF calls = <<>> THEN <<>>
    ELSE AppendedBits(SubSeq(calls, 1, Len(calls) - 1))
             \o CodeBits(calls[Len(calls)][1], calls[Len(calls)][2])

RECURSIVE SumOfWidths(_)
SumOfWidths(calls) ==
    IF calls = <<>> THEN 0
    ELSE SumOfWidths(SubSeq(calls, 1, Len(calls) - 1)) + calls[Len(calls)][2]

\* A GIF LZW decoder, written from the format and not from the encoder: codes
\* are read lowest bit first at the current width, which starts at
\* min_code_size + 1 and grows up to 12; the clear code resets the dictionary,
\* the end code stops.
DecoderStart(mcs) ==
    [pos |-> 0, width |-> mcs + 1, dict |-> [c \in 0..(2 ^ mcs - 1) |-> <<c>>],
     next |-> 2 ^ mcs + 2, prev |-> -1, indices |-> <<>>, status |-> "reading"]

RECURSIVE ValueAt(_, _, _)
ValueAt(bits, pos, width) ==
    IF width = 0 THEN 0
    ELSE bits[pos + 1] + 2 * ValueAt(bits, pos + 1, width - 1)

DecoderStep(bits, mcs, st) ==
    IF st.pos + st.width > Len(bits) THEN [st EXCEPT !.status = "truncated"]
    ELSE
    LET code == ValueAt(bits, st.pos, st.width)
        read == [st EXCEPT !.pos = @ + st.width]
    IN  IF code = 2 ^ mcs
        THEN [DecoderStart(mcs) EXCEPT !.pos = read.pos, !.indices = st.indices]
        ELSE IF code = 2 ^ mcs + 1 THEN [read EXCEPT !.status = "end"]
        ELSE IF st.prev = -1
        THEN IF code \in DOMAIN st.dict
             THEN [read EXCEPT !.indices = @ \o st.dict[code], !.prev = code]
             ELSE [read EXCEPT !.status = "bad code"]
        ELSE IF code \notin DOMAIN st.dict /\ code # st.next
        THEN [read EXCEPT !.status = "bad code"]
        ELSE
        LET before == st.dict[st.prev]
            entry == IF code \in DOMAIN st.dict
                     THEN st.dict[code] ELSE Append(before, before[1])
            full == st.next >= 4096
            next == IF full THEN st.next ELSE st.next + 1
        IN  [read EXCEPT
                !.indices = @ \o entry,
                !.prev = code,
                !.dict = IF full THEN @
                         ELSE (st.next :> Append(before, entry[1])) @@ @,
                !.next = next,
                !.width = IF ~full /\ next = 2 ^ @ /\ @ < 12 THEN @ + 1 ELSE @]

RECURSIVE DecoderRun(_, _, _)
DecoderRun(bits, mcs, st) ==
    IF st.status # "reading" THEN st
    ELSE LET after == DecoderStep(bits, mcs, st)
         IN  DecoderRun(bits, mcs, after)

Decoded(bytes, mcs) == DecoderRun(BitsOf(bytes), mcs, DecoderStart(mcs))

\* C1: for every non-empty sequence of palette indices smaller than the colour
\* table's declared length, an independent GIF LZW decoder turns the bytes
\* returned by compress back into exactly that sequence.
C1_CompressRoundTrip ==
    (pc = "done" /\ \A i \in 1..Len(color_indices) : color_indices[i] < __len__)
        => Decoded(_out, min_code_size).indices = color_indices

\* C2: under any input to compress the code table's current code width lies
\* between min_code_size + 1 and 12 in every state, and every code appended to
\* the bit stream occupies at most 12 bits.
C2_CodeWidthAtMost12 ==
    pc \in {"loop", "done"} =>
        /\ _code_size >= min_code_size + 1
        /\ _code_size <= 12
        /\ \A i \in 1..Len(appended) :
               /\ bit_length(appended[i][1]) <= 12
               /\ appended[i][2] <= 12

\* the step adds a dictionary entry whose new code is 2^12 at code width 12
AddsCode4096 ==
    /\ pc = "loop"
    /\ _code_size = 12
    /\ _cur_code = 2 ^ _code_size
    /\ DOMAIN _d' # DOMAIN _d

\* C3: when a newly assigned dictionary code equals 2^current_code_width and
\* the width is 12, the code table emits a clear code, resets the width to
\* min_code_size + 1, resets the dictionary to its initial single-index entries
\* and resets the next available code to end_code + 1.
C3_ResetAtCeiling ==
    [][AddsCode4096 =>
         /\ appended'[Len(appended')] = <<2 ^ min_code_size, 12>>
         /\ _code_size' = min_code_size + 1
         /\ \A key \in DOMAIN _d' : Len(key) = 1
         /\ _cur_code' = 2 ^ min_code_size + 2]_vars

\* C4: for any sequence of append(code, width) calls with widths in 2..12 and
\* 0 <= code < 2^width, the finalized stream is exactly ceil(S / 8) bytes, S
\* the sum of the widths; read lowest bit first they hold every code's bits in
\* append order, followed only by fewer than 8 zero bits.
C4_StreamHoldsEveryCode ==
    pc = "bytes" =>
        LET S == SumOfWidths(appended)
            expected == AppendedBits(appended)
            got == BitsOf(_out)
        IN  /\ Len(_out) = (S + 7) \div 8
            /\ \A k \in 1..S : k <= Len(got) /\ got[k] = expected[k]
            /\ \A k \in (S + 1)..Len(got) : got[k] = 0

\* the codes compress has passed to the bit stream so far, in order
Emitted == [i \in 1..Len(appended) |-> appended[i][1]]

ClearCode == 2 ^ min_code_size
EndCode == 2 ^ min_code_size + 1

\* the positions of the end code among the codes emitted
EndCodeAt == {i \in 1..Len(appended) : Emitted[i] = EndCode}

\* idx_buffer is what is left of the input after the sequences already coded
IsSuffix(tail, whole) ==
    /\ Len(tail) <= Len(whole)
    /\ SubSeq(whole, Len(whole) - Len(tail) + 1, Len(whole)) = tail

\* while compress runs the first code is the clear code at the first width
\* and no end code has been emitted; when it has returned, the last two codes
\* are the code of the final buffer and the end code, which occurs nowhere
\* else
EmissionOrder ==
    /\ pc \in {"loop", "done"} =>
           /\ appended # <<>>
           /\ appended[1] = <<ClearCode, min_code_size + 1>>
    /\ pc = "loop" => EndCodeAt = {}
    /\ pc = "done" =>
           /\ Len(appended) >= 3
           /\ EndCodeAt = {Len(appended)}
           /\ idx_buffer # <<>>
           /\ IsSuffix(idx_buffer, color_indices)
           /\ Emitted[Len(appended) - 1] = _d[idx_buffer]
           /\ Len(idx_buffer) = 1 => Emitted[Len(appended) - 1] = idx_buffer[1]

\* C21: for every non-empty input of colour-table indices the codes emitted
\* by compress start with the clear code at width min_code_size + 1 and end
\* with the code of the final buffer followed by the end code; the end code is
\* emitted once, as the last code, and no code is emitted after it.
C21_EmissionOrder ==
    /\ []EmissionOrder
    /\ [][EndCodeAt # {} => appended' = appended]_vars

\* compress has returned for an input that took more than one data code
C21_Witness ==
    /\ pc = "done"
    /\ Len(color_indices) >= 3
    /\ Len(appended) >= 4
    /\ appended[1][1] = ClearCode
    /\ appended[Len(appended)][1] = EndCode

\* C22: after every call of append on a bit stream, for any width in 2..12
\* and any appends before it, fewer than 8 bits remain in the bit buffer.
C22_FewerThan8BitsBuffered ==
    (pc = "stream" /\ appended # <<>>) => Len(_buffer) < 8

\* the number of bits append(n, code_size) pushes on the buffer: the bits of
\* n, then code_size - n.bit_length() zeros when that is positive
BitsPushed(n, code_size) ==
    Len(LowBitsFirst(n) \o repeat(0, code_size - bit_length(n)))

\* C26: every code compress passes to the bit stream (clear code, data codes,
\* end code) is smaller than 2^w, w the code width in force at that emission,
\* so that each emission appends exactly w bits; the working buffer is a
\* known dictionary sequence whenever its code is emitted.
C26_CodesFitTheirWidth ==
    /\ pc # "KeyError"
    /\ \A i \in 1..Len(appended) :
           /\ appended[i][1] < 2 ^ appended[i][2]
           /\ BitsPushed(appended[i][1], appended[i][2]) = appended[i][2]

-----------------------------------------------------------------------------
(* Properties of the extension blocks *)

SubBlocksMalformed == <<-1>>

RECURSIVE SubBlocksPayload(_)
\* the payload carried by a sequence of sub-blocks ended by its terminator:
\* runs of 1..255 bytes, each after its length byte, then one zero byte and
\* nothing more
SubBlocksPayload(bytes) ==
    IF bytes = <<>> THEN SubBlocksMalformed
    ELSE IF bytes[1] = 0
    THEN IF Len(bytes) = 1 THEN <<>> ELSE SubBlocksMalformed
    ELSE IF bytes[1] > 255 \/ Len(bytes) < 1 + bytes[1] THEN SubBlocksMalformed
    ELSE LET rest == SubBlocksPayload(SubSeq(bytes, 2 + bytes[1], Len(bytes)))
         IN  IF rest = SubBlocksMalformed THEN SubBlocksMalformed
             ELSE SubSeq(bytes, 2, 1 + bytes[1]) \o rest

IsASCII(str) == \A i \in 1..Len(str) : str[i] < 128

\* C13: for a payload of any length (0, fewer than 255, exactly 255 and
\* multiples of 255 included) the comment extension's sub-blocks are runs of
\* at most 255 bytes, each preceded by its length byte, that concatenate to
\* the payload, followed by one zero-length terminator; 300 bytes give
\* [0xFF][255 bytes][0x2D][45 bytes][0x00].
C13_SubBlockChunking ==
    (LastCalled.op = "CommentExtension.__bytes__" /\ IsASCII(_data)) =>
        /\ returned.raised = ""
        /\ Len(returned.value) >= 3
        /\ SubSeq(returned.value, 1, 2) = <<33, 254>>
        /\ SubBlocksPayload(SubSeq(returned.value, 3, Len(returned.value))) = _data
        /\ Len(_data) = 300 =>
               /\ Len(returned.value) = 2 + 1 + 255 + 1 + 45 + 1
               /\ returned.value[3] = 255
               /\ returned.value[259] = 45
               /\ returned.value[305] = 0

-----------------------------------------------------------------------------
(* Properties of the packed fields *)

\* the values a sub-field of 3 bits can hold
ThreeBits == 0..7

\* C14: packing a table-color-field whose values are in range gives the
\* byte 128*has_table + 16*color_resolution + 8*sort + size (sub-fields most
\* significant first at widths 1, 3, 1, 3); has_table, color_resolution 3,
\* no sort and size 5 pack to 0xB5.
C14_TableColorFieldByte ==
    (/\ LastCalled.op = "__int__"
     /\ field.class = "TableColorField"
     /\ field.color_resolution \in ThreeBits
     /\ field.size # None
     /\ field.size[1] \in ThreeBits) =>
        /\ returned.raised = ""
        /\ returned.value = 128 * int(field.has_global_color_table)
                             + 16 * field.color_resolution
                             + 8 * int(field.sort)
                             + field.size[1]

\* a numeric sub-field of the packed field holds a value wider than 3 bits
SubFieldTooWide ==
    IF field.class = "TableColorField"
    THEN \/ field.color_resolution \notin ThreeBits
         \/ field.size # None /\ field.size[1] \notin ThreeBits
    ELSE field.local_color_table_size \notin ThreeBits

\* C15: packing a packed field fails whenever a numeric sub-field's value
\* does not fit in its declared width; no byte is returned for it.
C15_TooWideValueFails ==
    (LastCalled.op = "__int__" /\ SubFieldTooWide) => returned.raised # ""

\* a table-color-field of size 8, its other values in range, was packed and
\* the call raised
C15_Witness ==
    /\ LastCalled.op = "__int__"
    /\ field.class = "TableColorField"
    /\ field.size = Some(8)
    /\ field.color_resolution \in ThreeBits
    /\ returned.raised = "TypeError"

-----------------------------------------------------------------------------
(* Properties of the container *)

\* the pixel arrays handed to insert and to item assignment so far, in order
RECURSIVE InsertedIn(_)
InsertedIn(calls) ==
    IF calls = <<>> THEN <<>>
    ELSE LET before == InsertedIn(SubSeq(calls, 1, Len(calls) - 1))
             call == calls[Len(calls)]
         IN  IF call.op \in {"insert", "__setitem__"}
             THEN Append(before, call.args[2])
             ELSE before

Inserted == InsertedIn(called)

\* the container has just been serialized, every field of its canvas
\* descriptor having been set before
Serialized ==
    /\ LastCalled.op = "__bytes__"
    /\ logical_screen_descriptor.canvas_width # None
    /\ logical_screen_descriptor.canvas_height # None
    /\ logical_screen_descriptor.background_color_index # None
    /\ logical_screen_descriptor.color_field.size # None

\* a grid of height x width pixels
Height(pixels) == Len(pixels)
Width(pixels) == Len(pixels[1])

\* lengths of the fixed sections of the byte stream
HeaderLength == 6
CanvasDescriptorLength == 7
LoopExtensionLength == 19
ImageDescriptorLength == 10
GraphicControlLength == 8

\* where the global colour table starts and where the first frame block
\* starts in a byte stream whose table has the declared length
TableStart == HeaderLength + CanvasDescriptorLength + 1
FramesStart == TableStart + 3 * __len__ + LoopExtensionLength

\* C16: a container holding one 2x2 frame of 3 distinct colours serializes
\* a global colour table section of exactly 8 colours (24 bytes: the 3 real
\* colours, then 5 black paddings), and the size sub-field of the canvas
\* descriptor's packed byte is 2.
C16_OneFrameGlobalTable ==
    (/\ Serialized
     /\ Len(Inserted) = 1
     /\ Height(Inserted[1]) = 2
     /\ Width(Inserted[1]) = 2
     /\ Cardinality(Colours(Inserted[1])) = 3) =>
        /\ returned.raised = ""
        /\ Len(images) = 1
        /\ __len__ = 8
        /\ Len(returned.value) >= TableStart + 23
        /\ SubSeq(returned.value, TableStart, TableStart + 23)
               = Flatten(underlying \o repeat(BLACK, 5))
        /\ returned.value[HeaderLength + 5] % 8 = 2

\* C17: the container's byte stream is the header, the canvas descriptor,
\* the global colour table, the loop extension, one block per frame in the
\* order of the container's sequence, and one trailer byte 0x3B at the end.
C17_ContainerAssembly ==
    Serialized =>
        /\ returned.raised = ""
        /\ Len(images) = Len(Inserted)
        /\ Len(returned.value) >= FramesStart
        /\ SubSeq(returned.value, 1, HeaderLength) = <<71, 73, 70, 56, 57, 97>>
        /\ SubSeq(returned.value, TableStart, TableStart + 3 * __len__ - 1) = __bytes__
        /\ SubSeq(returned.value, FramesStart - LoopExtensionLength,
                  FramesStart - LoopExtensionLength + 1) = <<33, 255>>
        /\ returned.value[Len(returned.value)] = 59
        /\ (images = <<>>) = (Len(returned.value) = FramesStart)

\* C18: in a frame block the compressed index stream is sub-block-chunked:
\* runs of at most 255 bytes, each after its length byte, ended by a
\* zero-length byte.  Stated for a container of one frame, whose block is
\* the last thing before the trailer.
C18_FrameDataChunked ==
    (Serialized /\ Len(Inserted) = 1) =>
        /\ returned.raised = ""
        /\ LET stream == returned.value
               block == IF stream[FramesStart] = 33
                        THEN FramesStart + GraphicControlLength
                        ELSE FramesStart
               data == SubSeq(stream, block + ImageDescriptorLength, Len(stream) - 1)
           IN  /\ stream[block] = 44
               /\ SubBlocksPayload(data) # SubBlocksMalformed

\* C19: a frame whose timing, transparency and disposal all equal the
\* container-wide defaults is emitted without the graphic-control block,
\* at position 0 too and however often the container is serialized.
\* insert(idx, pixels) gives a frame the defaults, so the first frame block
\* starts with the image separator 0x2C.
C19_NoBlockForDefaultMetadata ==
    (Serialized /\ Len(Inserted) >= 1) =>
        /\ returned.raised = ""
        /\ Len(images) >= 1
        /\ ~images[1].use_graphic_control_extension
        /\ returned.value[FramesStart] = 44

\* the largest n of a non-empty sequence of numbers
RECURSIVE Largest(_)
Largest(ns) ==
    IF Len(ns) = 1 THEN ns[1]
    ELSE MaxOf(ns[Len(ns)], Largest(SubSeq(ns, 1, Len(ns) - 1)))

\* C20: after any sequence of insertions (insert or item assignment) the
\* canvas width is the largest width and the canvas height the largest
\* height of the frames inserted so far.
C20_CanvasIsLargestFrame ==
    Inserted # <<>> =>
        /\ logical_screen_descriptor.canvas_width
               = Some(Largest([i \in 1..Len(Inserted) |-> Width(Inserted[i])]))
        /\ logical_screen_descriptor.canvas_height
               = Some(Largest([i \in 1..Len(Inserted) |-> Height(Inserted[i])]))

\* every cell of the index grid holds the index of that cell's colour in the
\* global colour table
GridResolved(pixels, indices) ==
    /\ Len(indices) = Height(pixels)
    /\ \A r \in 1..Height(pixels) :
           /\ Len(indices[r]) = Width(pixels)
           /\ \A c \in 1..Width(pixels) :
                  /\ indices[r][c] \in 0..(underlying_length - 1)
                  /\ underlying[indices[r][c] + 1] = pixels[r][c]

C24_SizeFieldFollowsTable ==
    Inserted # <<>> => logical_screen_descriptor.color_field.size = Some(size)

\* C25: the transparent-colour index recorded in the graphic-control block of
\* a frame made by create_frame is never the index of an explicitly inserted
\* colour of the global colour table, also after that frame's own colours and
\* later frames' colours have been inserted.
C25_TransparentIndexStaysFree ==
    (new_frame # None /\ new_frame[1]._graphic_control_extension # None) =>
        new_frame[1]._graphic_control_extension[1].transparent_color_index
            \notin 0..(underlying_length - 1)

====
